---- MODULE Spec2Model ----
(***************************************************************************)
(* A model of openmdao/python/examples/run_py_openmdao_ccblade.py: the     *)
(* script block that times main(), the body of main() that wires the       *)
(* OpenMDAO problem, and the closure ccblade_interp that adapts the        *)
(* airfoil interpolant to the array shapes CCBlade passes.                 *)
(*                                                                         *)
(* Two specifications:                                                     *)
(*   Spec       - the __main__ block and main(), statement by statement;   *)
(*   SpecInterp - ccblade_interp applied to bounded input arrays.          *)
(***************************************************************************)
EXTENDS Integers, Sequences, FiniteSets, TLC

VARIABLES
    script,        \* line of the __main__ block being executed
    pc,            \* statement of main() to execute next, "idle" outside main()
    prob,          \* identity of the Problem object bound to `prob` (0: none)
    subsystems,    \* prob.model's subsystems, in order of add_subsystem
    design_vars,   \* prob.model's design variables: name -> metadata
    objectives,    \* prob.model's objectives: name -> metadata
    constraints,   \* prob.model's constraints: name -> metadata
    driver,        \* prob.driver
    status,        \* how far prob has been set up
    clock,         \* what time.time() returns now
    st,            \* main()'s local st
    elapsed_time,  \* main()'s local elapsed_time
    times,         \* the list the comprehension of line 142 has built so far
    report,        \* what line 143 printed
    log,           \* history: the statements of the current main(), with their times
    returned,      \* history: the value returned by every main() call so far
    dur,           \* environment: how long the external calls take
    ipc,           \* SpecInterp: position of the caller of ccblade_interp
    alpha,         \* SpecInterp: argument alpha
    Re,            \* SpecInterp: argument Re
    Mach,          \* SpecInterp: argument Mach of the first call
    Mach2,         \* SpecInterp: argument Mach of the second call
    table,         \* SpecInterp: the airfoil polar behind interp
    res1,          \* SpecInterp: what the first call returned
    res2           \* SpecInterp: what the second call returned

mainVars == <<script, pc, prob, subsystems, design_vars, objectives, constraints,
              driver, status, clock, st, elapsed_time, times, report, log,
              returned, dur>>
interpVars == <<ipc, alpha, Re, Mach, Mach2, table, res1, res2>>
vars == <<mainVars, interpVars>>

None == "None"

\* A name that is not bound yet holds <<>>, a bound one <<value>>.
Unbound == <<>>
Bound(v) == <<v>>

-----------------------------------------------------------------------------
(* Bounds of the model.                                                    *)

\* The external calls (setup, final_setup, run_driver, make_plots) take
\* between 1 and MaxDur ticks of the clock.
MaxDur == 2

\* Arrays handed to ccblade_interp hold at most MaxSize elements.
MaxSize == 4

-----------------------------------------------------------------------------
(* Locals of main(), lines 60-72.                                          *)

num_nodes == 1
num_blades == 3
num_radial == 15
num_cp == 6
chord == 10

\* np.pi, in millionths: angles are held in microradians.
PiMicro == 3141593

\* deg*np.pi/180.
Deg2Rad(deg) == (deg * PiMicro) \div 180

\* np.linspace(start, stop, num): num evenly spaced samples, both ends included.
Linspace(start, stop, num) ==
    [i \in 1..num |-> start + ((i - 1) * (stop - start)) \div (num - 1)]

ThetaStartDeg == 65
ThetaStopDeg == 25

\* Mutant: the control points are left in degrees.
theta_in_degrees ==
    LET deg == Linspace(ThetaStartDeg, ThetaStopDeg, num_cp)
    IN  [i \in 1..num_cp |-> deg[i] * 1000000]

\* theta = np.linspace(65., 25., num_cp)*np.pi/180.
theta ==
    LET deg == Linspace(ThetaStartDeg, ThetaStopDeg, num_cp)
    IN  [i \in 1..num_cp |-> Deg2Rad(deg[i])]

\* Mutant: indices counted from one.
Arange_from_one(n) == [i \in 1..n |-> i]

\* np.arange(n)
Arange(n) == [i \in 1..n |-> i - 1]

\* A value broadcast to a one-dimensional shape, as add_output(val=, shape=) does.
Full(shape, val) == [i \in 1..shape |-> val]

-----------------------------------------------------------------------------
(* The components main() builds, lines 76-116.                             *)

\* comp.add_discrete_input('B', ...), line 77
IndepVarCompInputs == {"B"}

\* Mutant: the chord control points are published under the name the
\* geometry group gives its interpolated chord.
IndepVarCompOutputs_chord ==
    <<"rho", "mu", "asound", "v", "alpha", "incidence", "precone", "omega",
      "hub_diameter", "prop_diameter", "pitch", "chord", "theta_dv">>

\* The names of comp.add_output(...), lines 78-90, in order
IndepVarCompOutputs ==
    <<"rho", "mu", "asound", "v", "alpha", "incidence", "precone", "omega",
      "hub_diameter", "prop_diameter", "pitch", "chord_dv", "theta_dv">>

\* The initial values of the outputs that become design variables, lines 89-90
\* (chord_dv in cm, theta_dv in microradians).
IndepVarCompVal ==
    ("chord_dv" :> Full(num_cp, chord)) @@ ("theta_dv" :> theta)

Range(s) == {s[i] : i \in DOMAIN s}

\* promotes=['*'] promotes every input and every output of the component.
PromoteAll(name, inputs, outputs) ==
    [name |-> name, options |-> <<>>,
     promotes_inputs |-> inputs, promotes_outputs |-> outputs]

\* line 91
IndepVarCompSubsystem ==
    PromoteAll("indep_var_comp", IndepVarCompInputs, Range(IndepVarCompOutputs))

\* Mutant: the geometry group does not promote dradii.
GeometryGroupSubsystem_no_dradii ==
    [name |-> "geometry_group",
     options |-> [num_nodes |-> num_nodes, num_cp |-> num_cp,
                  num_radial |-> num_radial],
     promotes_inputs |-> {"hub_diameter", "prop_diameter", "chord_dv",
                          "theta_dv", "pitch"},
     promotes_outputs |-> {"radii", "chord", "theta"}]

\* lines 93-99
GeometryGroupSubsystem ==
    [name |-> "geometry_group",
     options |-> [num_nodes |-> num_nodes, num_cp |-> num_cp,
                  num_radial |-> num_radial],
     promotes_inputs |-> {"hub_diameter", "prop_diameter", "chord_dv",
                          "theta_dv", "pitch"},
     promotes_outputs |-> {"radii", "dradii", "chord", "theta"}]

\* lines 101-105
InflowCompSubsystem ==
    [name |-> "inflow_comp",
     options |-> [num_nodes |-> num_nodes, num_radial |-> num_radial],
     promotes_inputs |-> {"v", "omega", "radii", "precone"},
     promotes_outputs |-> {"Vx", "Vy"}]

\* lines 107-116
CCBladeGroupSubsystem ==
    [name |-> "ccblade_group",
     options |-> [num_nodes |-> num_nodes, num_radial |-> num_radial,
                  num_blades |-> num_blades, turbine |-> FALSE,
                  phi_residual_solve_nonlinear |-> "bracketing"],
     promotes_inputs |-> {"radii", "dradii", "chord", "theta", "rho",
                          "mu", "asound", "v", "omega", "Vx", "Vy", "precone",
                          "hub_diameter", "prop_diameter"},
     promotes_outputs |-> {"thrust", "torque", "efficiency"}]

\* lines 118-119: lower=1., upper=20. (cm), scaler=5e-2
ChordDesignVar == [lower |-> 1, upper |-> 20, scaler |-> <<5, 100>>]

\* lines 120-121: lower=20.*np.pi/180., upper=90*np.pi/180. (microradians)
ThetaDesignVar ==
    [lower |-> Deg2Rad(20), upper |-> Deg2Rad(90), scaler |-> <<1, 1>>]

\* line 123
EfficiencyObjective == [scaler |-> <<-1, 1>>]

\* np.arange(num_nodes), line 125
ThrustIndices == Arange(num_nodes)

\* lines 124-125
ThrustConstraint ==
    [equals |-> 700, scaler |-> <<1, 1000>>, indices |-> ThrustIndices]

-----------------------------------------------------------------------------
(* The statements of main() after its locals, lines 74-137, in program     *)
(* order.                                                                  *)

\* Mutant: the driver is run before the problem is set up.
MainBody_run_before_setup ==
    <<"Problem", "add_indep_var_comp", "add_geometry_group", "add_inflow_comp",
      "add_ccblade_group", "add_design_var_chord", "add_design_var_theta",
      "add_objective", "add_constraint", "set_driver", "time_start", "run_driver",
      "time_end", "setup", "final_setup", "make_plots", "return">>

\* Mutant: the end of the interval is read after the plots are made.
MainBody_time_end_after_plots ==
    <<"Problem", "add_indep_var_comp", "add_geometry_group", "add_inflow_comp",
      "add_ccblade_group", "add_design_var_chord", "add_design_var_theta",
      "add_objective", "add_constraint", "set_driver", "setup", "final_setup",
      "time_start", "run_driver", "make_plots", "time_end", "return">>

MainBody ==
    <<"Problem", "add_indep_var_comp", "add_geometry_group", "add_inflow_comp",
      "add_ccblade_group", "add_design_var_chord", "add_design_var_theta",
      "add_objective", "add_constraint", "set_driver", "setup", "final_setup",
      "time_start", "run_driver", "time_end", "make_plots", "return">>

IndexOf(s, x) == CHOOSE i \in DOMAIN s : s[i] = x

\* The statement after statement l.
NextLine(l) == MainBody[IndexOf(MainBody, l) + 1]

\* range(20), line 142
NumTimed == 20

\* The number of the main() call in progress (1 for the call of line 141).
Run == Len(returned) + 1

\* How long prob.run_driver() takes in call k: the first call also pays a
\* warm-up, and successive calls do not all take the same time.
RunDur(k) == dur.run + (IF k = 1 THEN dur.warm ELSE 0) + (k % 2)

Durations ==
    [setup : 1..MaxDur, run : 1..MaxDur, plot : 1..MaxDur, warm : 0..MaxDur]

\* A statement taking d ticks: it is logged with its start and end time and
\* control moves to the next statement.
Stmt(l, d) ==
    /\ pc = l
    /\ pc' = NextLine(l)
    /\ clock' = clock + d
    /\ log' = Append(log, [op |-> l, t0 |-> clock, t1 |-> clock + d])

-----------------------------------------------------------------------------
(* The __main__ block, lines 140-143, and main(), lines 45-137.            *)

InterpIdle ==
    /\ ipc = "unused"
    /\ alpha = None /\ Re = None /\ Mach = None /\ Mach2 = None
    /\ table = None /\ res1 = None /\ res2 = None

Init ==
    /\ script = "L141"
    /\ pc = "idle"
    /\ prob = 0
    /\ subsystems = <<>>
    /\ design_vars = <<>>
    /\ objectives = <<>>
    /\ constraints = <<>>
    /\ driver = [class |-> None, optimizer |-> None]
    /\ status = None
    /\ clock = 0
    /\ st = Unbound
    /\ elapsed_time = Unbound
    /\ times = <<>>
    /\ report = Unbound
    /\ log = <<>>
    /\ returned = <<>>
    /\ dur \in Durations
    /\ InterpIdle

\* main() is entered, from line 141 or from the comprehension of line 142:
\* its locals (lines 46-72) are fresh.
CallMain ==
    /\ script \in {"L141", "L142"}
    /\ pc = "idle"
    /\ pc' = MainBody[1]
    /\ log' = <<>>
    /\ st' = Unbound
    /\ elapsed_time' = Unbound
    /\ UNCHANGED <<script, prob, subsystems, design_vars, objectives, constraints,
                   driver, status, clock, times, report, returned, dur>>

\* line 74: prob = Problem()
NewProblem ==
    /\ Stmt("Problem", 0)
    /\ prob' = Run
    /\ subsystems' = <<>>
    /\ design_vars' = <<>>
    /\ objectives' = <<>>
    /\ constraints' = <<>>
    /\ driver' = [class |-> "Driver", optimizer |-> None]
    /\ status' = None
    /\ UNCHANGED <<script, st, elapsed_time, times, report, returned, dur>>

\* prob.model.add_subsystem(...)
AddSubsystem(l, sub) ==
    /\ Stmt(l, 0)
    /\ subsystems' = Append(subsystems, sub)
    /\ UNCHANGED <<script, prob, design_vars, objectives, constraints, driver,
                   status, st, elapsed_time, times, report, returned, dur>>

\* lines 76-91
AddIndepVarComp == AddSubsystem("add_indep_var_comp", IndepVarCompSubsystem)

\* lines 93-99
AddGeometryGroup == AddSubsystem("add_geometry_group", GeometryGroupSubsystem)

\* lines 101-105
AddInflowComp == AddSubsystem("add_inflow_comp", InflowCompSubsystem)

\* lines 107-116
AddCCBladeGroup == AddSubsystem("add_ccblade_group", CCBladeGroupSubsystem)

\* prob.model.add_design_var(name, ...)
AddDesignVar(l, name, meta) ==
    /\ Stmt(l, 0)
    /\ design_vars' = design_vars @@ (name :> meta)
    /\ UNCHANGED <<script, prob, subsystems, objectives, constraints, driver,
                   status, st, elapsed_time, times, report, returned, dur>>

\* lines 118-119
AddDesignVarChord == AddDesignVar("add_design_var_chord", "chord_dv", ChordDesignVar)

\* lines 120-121
AddDesignVarTheta == AddDesignVar("add_design_var_theta", "theta_dv", ThetaDesignVar)

\* line 123
AddObjective ==
    /\ Stmt("add_objective", 0)
    /\ objectives' = objectives @@ ("efficiency" :> EfficiencyObjective)
    /\ UNCHANGED <<script, prob, subsystems, design_vars, constraints, driver,
                   status, st, elapsed_time, times, report, returned, dur>>

\* lines 124-125
AddConstraint ==
    /\ Stmt("add_constraint", 0)
    /\ constraints' = constraints @@ ("thrust" :> ThrustConstraint)
    /\ UNCHANGED <<script, prob, subsystems, design_vars, objectives, driver,
                   status, st, elapsed_time, times, report, returned, dur>>

\* lines 126-127
SetDriver ==
    /\ Stmt("set_driver", 0)
    /\ driver' = [class |-> "pyOptSparseDriver", optimizer |-> "SNOPT"]
    /\ UNCHANGED <<script, prob, subsystems, design_vars, objectives, constraints,
                   status, st, elapsed_time, times, report, returned, dur>>

\* line 129
Setup ==
    /\ Stmt("setup", dur.setup)
    /\ status' = "setup"
    /\ UNCHANGED <<script, prob, subsystems, design_vars, objectives, constraints,
                   driver, st, elapsed_time, times, report, returned, dur>>

\* line 130
FinalSetup ==
    /\ Stmt("final_setup", dur.setup)
    /\ status' = "final_setup"
    /\ UNCHANGED <<script, prob, subsystems, design_vars, objectives, constraints,
                   driver, st, elapsed_time, times, report, returned, dur>>

\* line 131: st = time.time()
TimeStart ==
    /\ Stmt("time_start", 0)
    /\ st' = Bound(clock)
    /\ UNCHANGED <<script, prob, subsystems, design_vars, objectives, constraints,
                   driver, status, elapsed_time, times, report, returned, dur>>

\* line 132
RunDriver ==
    /\ Stmt("run_driver", RunDur(Run))
    /\ status' = "run"
    /\ UNCHANGED <<script, prob, subsystems, design_vars, objectives, constraints,
                   driver, st, elapsed_time, times, report, returned, dur>>

\* time.time() - st
Elapsed(now, start) == now - start

\* line 133: elapsed_time = time.time() - st
TimeEnd ==
    /\ st # Unbound
    /\ Stmt("time_end", 0)
    /\ elapsed_time' = Bound(Elapsed(clock, st[1]))
    /\ UNCHANGED <<script, prob, subsystems, design_vars, objectives, constraints,
                   driver, status, st, times, report, returned, dur>>

\* line 135
MakePlots ==
    /\ Stmt("make_plots", dur.plot)
    /\ UNCHANGED <<script, prob, subsystems, design_vars, objectives, constraints,
                   driver, status, st, elapsed_time, times, report, returned, dur>>

\* Mutant: the value of the first call is kept too.
Collect_all(line, list, value) == Append(list, value)

\* What line 142 keeps of the values main() returns: the call of line 141
\* is a bare expression statement, the comprehension collects the rest.
Collect(line, list, value) == IF line = "L141" THEN list ELSE Append(list, value)

\* After a call returns: line 141 is followed by line 142, and the
\* comprehension of line 142 ends after range(20) is exhausted.
AfterReturn(line, list) ==
    IF line = "L142" /\ Len(list) = NumTimed THEN "L143" ELSE "L142"

\* line 137: return elapsed_time, back in line 141 or 142
Return ==
    /\ pc = "return"
    /\ elapsed_time # Unbound
    /\ pc' = "idle"
    /\ log' = Append(log, [op |-> "return", t0 |-> clock, t1 |-> clock])
    /\ returned' = Append(returned, elapsed_time[1])
    /\ times' = Collect(script, times, elapsed_time[1])
    /\ script' = AfterReturn(script, times')
    /\ UNCHANGED <<prob, subsystems, design_vars, objectives, constraints, driver,
                   status, clock, st, elapsed_time, report, dur>>

RECURSIVE Sum(_)
Sum(s) == IF s = <<>> THEN 0 ELSE s[1] + Sum(Tail(s))

\* np.mean(a), as the fraction <<numerator, denominator>>
Mean(a) == <<Sum(a), Len(a)>>

\* np.std(a)**2, the population variance, as a fraction:
\* mean(|a - mean(a)|**2) = (n*sum(a*a) - sum(a)**2) / n**2
Var(a) ==
    <<Len(a) * Sum([i \in DOMAIN a |-> a[i] * a[i]]) - Sum(a) * Sum(a),
      Len(a) * Len(a)>>

\* line 143
Report ==
    /\ script = "L143"
    /\ pc = "idle"
    /\ report' = Bound([mean |-> Mean(times), var |-> Var(times)])
    /\ script' = "end"
    /\ UNCHANGED <<pc, prob, subsystems, design_vars, objectives, constraints,
                   driver, status, clock, st, elapsed_time, times, log, returned,
                   dur>>

Next ==
    /\ \/ CallMain
       \/ NewProblem
       \/ AddIndepVarComp
       \/ AddGeometryGroup
       \/ AddInflowComp
       \/ AddCCBladeGroup
       \/ AddDesignVarChord
       \/ AddDesignVarTheta
       \/ AddObjective
       \/ AddConstraint
       \/ SetDriver
       \/ Setup
       \/ FinalSetup
       \/ TimeStart
       \/ RunDriver
       \/ TimeEnd
       \/ MakePlots
       \/ Return
       \/ Report
    /\ UNCHANGED interpVars

Spec == Init /\ [][Next]_vars

-----------------------------------------------------------------------------
(* numpy arrays: a shape and the elements by index tuple (0-based).        *)

RECURSIVE Size(_)
\* The number of elements of an array of this shape.
Size(shape) == IF shape = <<>> THEN 1 ELSE shape[1] * Size(Tail(shape))

RECURSIVE Indices(_)
\* The index tuples of an array of this shape.
Indices(shape) ==
    IF shape = <<>>
    THEN {<<>>}
    ELSE {<<i>> \o rest : i \in 0..(shape[1] - 1), rest \in Indices(Tail(shape))}

RECURSIVE Ravel(_, _)
\* The position of index tuple idx in C (row-major) order.
Ravel(idx, shape) ==
    IF shape = <<>>
    THEN 0
    ELSE idx[1] * Size(Tail(shape)) + Ravel(Tail(idx), Tail(shape))

RECURSIVE Unravel(_, _)
\* The index tuple at position k in C (row-major) order.
Unravel(k, shape) ==
    IF shape = <<>>
    THEN <<>>
    ELSE <<k \div Size(Tail(shape))>>
             \o Unravel(k % Size(Tail(shape)), Tail(shape))

Front(s) == SubSeq(s, 1, Len(s) - 1)
Last(s) == s[Len(s)]

\* a.flatten(): a one-dimensional copy, in C order
Flatten(a) ==
    LET at(idx) == a.data[Unravel(idx[1], a.shape)]
    IN  [shape |-> <<Size(a.shape)>>,
         data |-> [idx \in Indices(<<Size(a.shape)>>) |-> at(idx)]]

\* a[:, np.newaxis], a one-dimensional
NewAxis(a) ==
    LET at(idx) == a.data[<<idx[1]>>]
    IN  [shape |-> a.shape \o <<1>>,
         data |-> [idx \in Indices(a.shape \o <<1>>) |-> at(idx)]]

\* np.concatenate([a, b], axis=-1)
Concatenate(a, b) ==
    LET shape == Front(a.shape) \o <<Last(a.shape) + Last(b.shape)>>
        at(idx) == IF Last(idx) < Last(a.shape)
                   THEN a.data[idx]
                   ELSE b.data[Front(idx) \o <<Last(idx) - Last(a.shape)>>]
    IN  [shape |-> shape, data |-> [idx \in Indices(shape) |-> at(idx)]]

\* y.shape = shape: the same elements in the same C order, indexed anew
SetShape(y, shape) ==
    LET at(idx) == y.data[Unravel(Ravel(idx, shape), y.shape)]
    IN  [shape |-> shape,
         data |-> [idx \in Indices(shape) |-> at(idx)]]

\* y[..., c]
Ellipsis(y, c) ==
    LET at(idx) == y.data[idx \o <<c>>]
    IN  [shape |-> Front(y.shape),
         data |-> [idx \in Indices(Front(y.shape)) |-> at(idx)]]

-----------------------------------------------------------------------------
(* ccblade_interp, lines 46-58.                                            *)

\* interp(x), lines 46-47 and 56: the interpolant takes an (N, 2) array of
\* pairs (alpha, Re) and returns an (N, 2) array of pairs (cl, cd), row i of
\* the result being the polar at row i of x.
Interp(polar, x) ==
    LET at(idx) == polar[<<x.data[<<idx[1], 0>>], x.data[<<idx[1], 1>>]>>][idx[2] + 1]
    IN  [shape |-> <<x.shape[1], 2>>,
         data |-> [idx \in Indices(<<x.shape[1], 2>>) |-> at(idx)]]

\* Mutant: the columns of x are Re, alpha.
InterpArgument_swapped(a, r) ==
    Concatenate(NewAxis(Flatten(r)), NewAxis(Flatten(a)))

\* lines 51-55: x
InterpArgument(a, r) ==
    Concatenate(NewAxis(Flatten(a)), NewAxis(Flatten(r)))

\* Mutant: the Mach number is handed to the interpolant in the place of Re.
CcbladeInterp_mach(polar, a, r, m) ==
    LET shape == a.shape
        x == InterpArgument(a, m)
        y == SetShape(Interp(polar, x), shape \o <<2>>)
    IN  [calls |-> <<x>>, lift |-> Ellipsis(y, 0), drag |-> Ellipsis(y, 1)]

\* lines 49-58; calls lists the arguments interp was called with
CcbladeInterp(polar, a, r, m) ==
    LET shape == a.shape
        x == InterpArgument(a, r)
        y == SetShape(Interp(polar, x), shape \o <<2>>)
    IN  [calls |-> <<x>>, lift |-> Ellipsis(y, 0), drag |-> Ellipsis(y, 1)]

\* The values the elements of alpha, Re and Mach are drawn from.
Vals == {0, 1}

\* The shapes of the arrays: scalars, vectors and matrices without an empty
\* axis, of at most MaxSize elements.
Shapes ==
    {<<>>} \cup {<<n>> : n \in 1..MaxSize}
           \cup UNION {{<<n, m>> : m \in 1..(MaxSize \div n)} : n \in 1..MaxSize}

Arrays(shape) == {[shape |-> shape, data |-> d] : d \in [Indices(shape) -> Vals]}

\* Mach arrays: every element the same, or alternating along the C order.
MachArrays(shape) ==
    {[shape |-> shape, data |-> [idx \in Indices(shape) |-> 0]],
     [shape |-> shape, data |-> [idx \in Indices(shape) |-> 1]],
     [shape |-> shape, data |-> [idx \in Indices(shape) |-> Ravel(idx, shape) % 2]]}

\* Two airfoil polars, (alpha, Re) -> (cl, cd): one that tells all pairs
\* apart in either component, one that does not.
Polars ==
    {[p \in Vals \X Vals |-> <<2 * p[1] + p[2], p[1] + 2 * p[2]>>],
     [p \in Vals \X Vals |-> <<p[1] - p[2], p[1] * p[2]>>]}

MainIdle ==
    /\ script = "end"
    /\ pc = "idle"
    /\ prob = 0
    /\ subsystems = <<>>
    /\ design_vars = <<>>
    /\ objectives = <<>>
    /\ constraints = <<>>
    /\ driver = [class |-> None, optimizer |-> None]
    /\ status = None
    /\ clock = 0
    /\ st = Unbound
    /\ elapsed_time = Unbound
    /\ times = <<>>
    /\ report = Unbound
    /\ log = <<>>
    /\ returned = <<>>
    /\ dur = [setup |-> 1, run |-> 1, plot |-> 1, warm |-> 0]

InitInterp ==
    /\ MainIdle
    /\ ipc = "start"
    /\ table \in Polars
    /\ \E shape \in Shapes :
          /\ alpha \in Arrays(shape)
          /\ Re \in Arrays(shape)
          /\ Mach \in MachArrays(shape)
          /\ Mach2 \in MachArrays(shape)
    /\ res1 = Unbound
    /\ res2 = Unbound

\* ccblade_interp(alpha, Re, Mach)
Call1 ==
    /\ ipc = "start"
    /\ res1' = Bound(CcbladeInterp(table, alpha, Re, Mach))
    /\ ipc' = "called"
    /\ UNCHANGED <<alpha, Re, Mach, Mach2, table, res2>>

\* ccblade_interp(alpha, Re, Mach2)
Call2 ==
    /\ ipc = "called"
    /\ res2' = Bound(CcbladeInterp(table, alpha, Re, Mach2))
    /\ ipc' = "done"
    /\ UNCHANGED <<alpha, Re, Mach, Mach2, table, res1>>

NextInterp ==
    /\ \/ Call1
       \/ Call2
    /\ UNCHANGED mainVars

SpecInterp == InitInterp /\ [][NextInterp]_vars

-----------------------------------------------------------------------------
(* Properties of main() and of the __main__ block, checked under Spec.     *)

LogOps == [i \in DOMAIN log |-> log[i].op]
Logged(op) == \E i \in DOMAIN log : log[i].op = op
Entry(op) == log[CHOOSE i \in DOMAIN log : log[i].op = op]
SubsystemNames == [i \in DOMAIN subsystems |-> subsystems[i].name]

\* The steps claim C1 orders.
OrderedSteps ==
    <<"add_indep_var_comp", "add_geometry_group", "add_inflow_comp",
      "add_ccblade_group", "add_design_var_chord", "add_design_var_theta",
      "add_objective", "add_constraint", "set_driver",
      "setup", "final_setup", "run_driver", "make_plots">>

IsOrderedStep(op) == \E i \in DOMAIN OrderedSteps : OrderedSteps[i] = op
StepsDone == SelectSeq(LogOps, IsOrderedStep)

\* C1: in every execution of main() the model is built (four subsystems,
\* design variables, objective, constraint, driver), then setup, then
\* final_setup, then run_driver, then make_plots are called, in this order
\* and each once: what has been executed so far is always an initial part of
\* that sequence, setup starts on the fully built problem, and a main() that
\* has returned has executed all of it.
C1_MainStepsInOrder ==
    /\ Len(StepsDone) <= Len(OrderedSteps)
    /\ StepsDone = SubSeq(OrderedSteps, 1, Len(StepsDone))
    /\ Logged("setup") =>
         /\ SubsystemNames = <<"indep_var_comp", "geometry_group",
                               "inflow_comp", "ccblade_group">>
         /\ DOMAIN design_vars = {"chord_dv", "theta_dv"}
         /\ DOMAIN objectives = {"efficiency"}
         /\ DOMAIN constraints = {"thrust"}
         /\ driver.class = "pyOptSparseDriver"
    /\ Logged("run_driver") =>
         /\ Logged("setup") /\ Logged("final_setup")
         /\ Entry("setup").t1 <= Entry("final_setup").t0
         /\ Entry("final_setup").t1 <= Entry("run_driver").t0
    /\ Logged("make_plots") =>
         /\ Logged("run_driver")
         /\ Entry("run_driver").t1 <= Entry("make_plots").t0
    /\ Logged("return") => StepsDone = OrderedSteps

\* A main() that has run to its end, plots made.
C1_Witness == Logged("return") /\ Logged("make_plots") /\ status = "run"

PromotingSubsystems == {"geometry_group", "inflow_comp", "ccblade_group"}
SourceSubsystems == {"indep_var_comp", "geometry_group", "inflow_comp"}

\* C2: every input promoted by geometry_group, inflow_comp or ccblade_group
\* has a source: an output of the same promoted name of a subsystem
\* (indep_var_comp, geometry_group or inflow_comp) added before it.
C2_PromotedInputsConnected ==
    \A i \in DOMAIN subsystems :
        subsystems[i].name \in PromotingSubsystems =>
            \A n \in subsystems[i].promotes_inputs :
                \E j \in 1..(i - 1) :
                    /\ subsystems[j].name \in SourceSubsystems
                    /\ n \in subsystems[j].promotes_outputs

\* The model fully assembled, the ccblade_group with its fourteen inputs.
C2_Witness ==
    /\ Len(subsystems) = 4
    /\ subsystems[4].name = "ccblade_group"
    /\ Cardinality(subsystems[4].promotes_inputs) = 14
    /\ status = "final_setup"

\* The promoted outputs claim C3 lists for each subsystem.
ListedOutputs ==
    [indep_var_comp |-> {"rho", "mu", "asound", "v", "alpha", "incidence",
                         "precone", "omega", "hub_diameter", "prop_diameter",
                         "pitch", "chord_dv", "theta_dv"},
     geometry_group |-> {"radii", "dradii", "chord", "theta"},
     inflow_comp |-> {"Vx", "Vy"},
     ccblade_group |-> {"thrust", "torque", "efficiency"}]

\* C3: the subsystems promote the listed outputs, and no promoted output
\* name is produced by two subsystems.
C3_PromotedOutputsDisjoint ==
    /\ \A i \in DOMAIN subsystems :
          subsystems[i].promotes_outputs = ListedOutputs[subsystems[i].name]
    /\ \A i, j \in DOMAIN subsystems :
          i # j => subsystems[i].promotes_outputs
                       \cap subsystems[j].promotes_outputs = {}

\* All four subsystems are in the model, 22 promoted outputs in all.
C3_Witness ==
    /\ Len(subsystems) = 4
    /\ Cardinality(UNION {subsystems[i].promotes_outputs : i \in 1..4}) = 22

\* C4: the design variables are exactly chord_dv and theta_dv; each is an
\* output of indep_var_comp and of no other subsystem, has lower < upper,
\* and starts with every element in [lower, upper]: chord_dv = 10 in
\* [1, 20] cm, theta_dv = 65, 57, 49, 41, 33, 25 degrees in [20, 90] degrees.
C4_DesignVarsWithinBounds ==
    /\ DOMAIN design_vars \subseteq {"chord_dv", "theta_dv"}
    /\ Logged("add_design_var_theta") => DOMAIN design_vars = {"chord_dv", "theta_dv"}
    /\ \A n \in DOMAIN design_vars :
          /\ \A i \in DOMAIN subsystems :
                n \in subsystems[i].promotes_outputs
                    <=> subsystems[i].name = "indep_var_comp"
          /\ \E i \in DOMAIN subsystems : n \in subsystems[i].promotes_outputs
          /\ design_vars[n].lower < design_vars[n].upper
          /\ \A k \in DOMAIN IndepVarCompVal[n] :
                /\ design_vars[n].lower <= IndepVarCompVal[n][k]
                /\ IndepVarCompVal[n][k] <= design_vars[n].upper
    /\ "chord_dv" \in DOMAIN design_vars =>
          /\ IndepVarCompVal["chord_dv"] = <<10, 10, 10, 10, 10, 10>>
          /\ design_vars["chord_dv"].lower = 1
          /\ design_vars["chord_dv"].upper = 20
    /\ "theta_dv" \in DOMAIN design_vars =>
          /\ IndepVarCompVal["theta_dv"] =
                <<Deg2Rad(65), Deg2Rad(57), Deg2Rad(49), Deg2Rad(41),
                  Deg2Rad(33), Deg2Rad(25)>>
          /\ design_vars["theta_dv"].lower = Deg2Rad(20)
          /\ design_vars["theta_dv"].upper = Deg2Rad(90)

\* Both design variables are declared and the driver is running on them.
C4_Witness ==
    /\ DOMAIN design_vars = {"chord_dv", "theta_dv"}
    /\ Logged("run_driver")

\* C5: the problem has one objective, efficiency, and one constraint, thrust
\* equal to 700; both are outputs promoted by ccblade_group; the indices of
\* the constraint are exactly 0 .. num_nodes-1, each once, num_nodes being
\* the number of nodes ccblade_group was built with.
C5_ObjectiveAndConstraint ==
    /\ DOMAIN objectives \subseteq {"efficiency"}
    /\ DOMAIN constraints \subseteq {"thrust"}
    /\ Logged("add_objective") => DOMAIN objectives = {"efficiency"}
    /\ Logged("add_constraint") => DOMAIN constraints = {"thrust"}
    /\ \A n \in DOMAIN objectives \cup DOMAIN constraints :
          \E i \in DOMAIN subsystems :
              /\ subsystems[i].name = "ccblade_group"
              /\ n \in subsystems[i].promotes_outputs
    /\ \A n \in DOMAIN constraints :
          /\ constraints[n].equals = 700
          /\ \A i \in DOMAIN subsystems :
                subsystems[i].name = "ccblade_group" =>
                    /\ Len(constraints[n].indices) = subsystems[i].options.num_nodes
                    /\ Range(constraints[n].indices)
                           = 0..(subsystems[i].options.num_nodes - 1)

\* The problem with its objective and constraint is handed to the driver.
C5_Witness ==
    /\ DOMAIN objectives = {"efficiency"}
    /\ DOMAIN constraints = {"thrust"}
    /\ driver.class = "pyOptSparseDriver"
    /\ pc = "make_plots"

\* C8: the value main() returns is the time prob.run_driver() took: st is
\* read after setup and final_setup have returned, the end of the interval
\* is read after run_driver has returned and before make_plots starts.
C8_ElapsedIsRunDriverOnly ==
    /\ elapsed_time # Unbound =>
          /\ st # Unbound
          /\ Logged("setup") /\ Logged("final_setup") /\ Logged("run_driver")
          /\ Entry("setup").t1 <= st[1]
          /\ Entry("final_setup").t1 <= st[1]
          /\ st[1] <= Entry("run_driver").t0
          /\ Entry("run_driver").t1 <= st[1] + elapsed_time[1]
          /\ elapsed_time[1] = Entry("run_driver").t1 - Entry("run_driver").t0
          /\ Logged("make_plots") =>
                st[1] + elapsed_time[1] <= Entry("make_plots").t0
    /\ Logged("return") =>
          /\ elapsed_time # Unbound
          /\ Logged("make_plots")
          /\ returned[Len(returned)] = elapsed_time[1]

\* A main() that has returned a positive time after setting up and plotting,
\* both of which took time.
C8_Witness ==
    /\ Logged("return")
    /\ returned[Len(returned)] > 0
    /\ Entry("setup").t1 > Entry("setup").t0
    /\ Entry("make_plots").t1 > Entry("make_plots").t0

\* C9: the script runs main() 21 times, one after another, each on a new
\* Problem; the value of the first run is dropped, and the average and the
\* standard deviation are those of the 20 values of the later runs, computed
\* after the last run has returned.
C9_TwentyTimedRuns ==
    /\ Len(returned) <= 21
    /\ pc = "idle" => prob = Len(returned)
    /\ pc \notin {"idle", "Problem"} => prob = Len(returned) + 1
    /\ returned # <<>> => times = Tail(returned)
    /\ report # Unbound =>
          /\ script = "end" /\ pc = "idle"
          /\ Len(returned) = 21
          /\ report[1].mean = <<Sum(SubSeq(returned, 2, 21)), 20>>
          /\ report[1].var = Var(SubSeq(returned, 2, 21))
    /\ script = "end" => report # Unbound
    /\ script \in {"L143", "end"} <=> (Len(returned) = 21 /\ pc = "idle")

\* The report is out, and the dropped first run took longer than the mean.
C9_Witness ==
    /\ script = "end"
    /\ report # Unbound
    /\ returned[1] * report[1].mean[2] > report[1].mean[1]

-----------------------------------------------------------------------------
(* Properties of ccblade_interp, checked under SpecInterp.                 *)

\* The place of an index of a scalar, a vector or a matrix when the elements
\* are read row by row.
RowByRow(idx, shape) ==
    CASE Len(shape) = 0 -> 0
      [] Len(shape) = 1 -> idx[1]
      [] Len(shape) = 2 -> idx[1] * shape[2] + idx[2]

\* C6: for alpha and Re of one shape S, ccblade_interp calls interp once, on
\* the pairs (alpha[i], Re[i]) in flattened order, and returns two arrays of
\* shape S holding at every index i the first and the second component of
\* the polar at (alpha[i], Re[i]).
C6_InterpIsReshapingAdapter ==
    res1 # Unbound =>
        LET r == res1[1]
            S == alpha.shape
        IN  /\ Len(r.calls) = 1
            /\ r.calls[1].shape = <<Cardinality(DOMAIN alpha.data), 2>>
            /\ \A idx \in DOMAIN alpha.data :
                  /\ r.calls[1].data[<<RowByRow(idx, S), 0>>] = alpha.data[idx]
                  /\ r.calls[1].data[<<RowByRow(idx, S), 1>>] = Re.data[idx]
            /\ r.lift.shape = S
            /\ r.drag.shape = S
            /\ DOMAIN r.lift.data = DOMAIN alpha.data
            /\ DOMAIN r.drag.data = DOMAIN alpha.data
            /\ \A idx \in DOMAIN alpha.data :
                  /\ r.lift.data[idx] = table[<<alpha.data[idx], Re.data[idx]>>][1]
                  /\ r.drag.data[idx] = table[<<alpha.data[idx], Re.data[idx]>>][2]

\* A call on 2 x 2 arrays whose alpha differs from row to row and from
\* column to column, and differs from Re.
C6_Witness ==
    /\ res1 # Unbound
    /\ alpha.shape = <<2, 2>>
    /\ alpha.data[<<0, 1>>] # alpha.data[<<1, 0>>]
    /\ alpha.data[<<0, 0>>] # alpha.data[<<0, 1>>]
    /\ alpha.data # Re.data

\* C7: two calls of ccblade_interp that differ only in Mach return the same
\* lift and drag arrays.
C7_MachIsIgnored ==
    (res1 # Unbound /\ res2 # Unbound) =>
        /\ res1[1].lift = res2[1].lift
        /\ res1[1].drag = res2[1].drag

\* Both calls were made, with different Mach arrays.
C7_Witness ==
    /\ res1 # Unbound
    /\ res2 # Unbound
    /\ Mach # Mach2
    /\ Mach.data # Re.data

====
